---- MODULE Spec2Model ----
(***************************************************************************)
(* NMC background-error-covariance estimation (nmc) and its iterative      *)
(* refinement (iterative_nmc), modelled from nmc-checkpoint.py.            *)
(*                                                                         *)
(* Numbers.  State values, dt and t1 are small integers, on which float64   *)
(* arithmetic (sum, difference, product, int(t1/dt), np.arange) is exact.   *)
(* The two true divisions of the program (`alpha * Pb / (num-1)` and        *)
(* `Pb_result /= count`) produce values that are kept as exact fractions    *)
(* [n, d]; d = 0 stands for the IEEE results of a division by zero: n = 0   *)
(* is NaN (0/0), n = 1 / -1 is +inf / -inf.  Rounding of float64 quotients  *)
(* is not modelled, nor is the rounding of a fractional dt in int(t1/dt)    *)
(* and in the length of np.arange(0, 2*t1_nstep*dt, dt).                    *)
(***************************************************************************)
EXTENDS Integers, Sequences, FiniteSets, TLC

\* ------------------------------------------------------------------ bounds
MaxDim   == 2      \* ndim ranges over 1..MaxDim
MaxNt    == 7      \* direct calls: reference length nt ranges over 1..MaxNt
MaxDt    == 2      \* dt ranges over 1..MaxDt (integer time ticks)
MaxT1    == 3      \* direct calls: t1 ranges over 0..MaxT1 (same ticks)
MaxAlpha == 3      \* alpha ranges over 1..MaxAlpha
MaxSeed  == 1      \* seed of the random source ranges over 0..MaxSeed
MaxIter  == 3      \* niter ranges over 1..MaxIter

\* -------------------------------------------------------- exact arithmetic
Abs(x) == IF x < 0 THEN -x ELSE x

Sgn(x) == IF x < 0 THEN -1 ELSE IF x = 0 THEN 0 ELSE 1

RECURSIVE GCD(_, _)
GCD(a, b) == IF b = 0 THEN a ELSE GCD(b, a % b)

\* A float value as a fraction in lowest terms with d >= 0.
Frac(n, d) ==
    IF d = 0 THEN [n |-> Sgn(n), d |-> 0]
    ELSE LET g == GCD(Abs(n), Abs(d))
         IN  [n |-> Sgn(d) * (n \div g), d |-> Abs(d) \div g]

NaN == [n |-> 0, d |-> 0]

IsNaN(x) == x.d = 0 /\ x.n = 0

\* float + float
FAdd(x, y) ==
    IF IsNaN(x) \/ IsNaN(y) THEN NaN
    ELSE IF x.d = 0 /\ y.d = 0 THEN (IF x.n = y.n THEN x ELSE NaN)
    ELSE IF x.d = 0 THEN x
    ELSE IF y.d = 0 THEN y
    ELSE Frac(x.n * y.d + y.n * x.d, x.d * y.d)

\* float / integer (numpy true division: x/0 is nan or +-inf, not an exception)
FDivInt(x, k) ==
    IF IsNaN(x) THEN NaN
    ELSE IF x.d = 0 THEN (IF k = 0 THEN x ELSE Frac(x.n * Sgn(k), 0))
    ELSE IF k = 0 THEN Frac(x.n, 0)
    ELSE Frac(x.n * Sgn(k), x.d * Abs(k))

\* integer * float
FMulInt(k, x) ==
    IF IsNaN(x) THEN NaN
    ELSE IF x.d = 0 THEN Frac(k * x.n, 0)
    ELSE Frac(k * x.n, x.d)

\* ------------------------------------------------------- vectors, matrices
\* A trajectory of shape (ndim, nt) is a sequence of ndim rows of length nt;
\* python's column index j (0-based) is position j+1 of a row.
Shape(arr) == <<Len(arr), IF Len(arr) = 0 THEN 0 ELSE Len(arr[1])>>

Column(arr, j) == [d \in 1..Len(arr) |-> arr[d][j + 1]]

RECURSIVE SumSeq(_)
SumSeq(s) == IF s = <<>> THEN 0 ELSE Head(s) + SumSeq(Tail(s))

\* ndarray.mean() of a column; the references of this model have columns
\* whose sum is a multiple of ndim, so the quotient is exact.
Mean(v) == SumSeq(v) \div Len(v)

VecSub(u, v) == [d \in 1..Len(u) |-> u[d] - v[d]]

\* (column u) @ (column u).T
Outer(u) == [r \in 1..Len(u) |-> [c \in 1..Len(u) |-> u[r] * u[c]]]

Zeros(n) == [r \in 1..n |-> [c \in 1..n |-> 0]]

MatAdd(A, B) == [r \in 1..Len(A) |-> [c \in 1..Len(A) |-> A[r][c] + B[r][c]]]

FZeros(n) == [r \in 1..n |-> [c \in 1..n |-> Frac(0, 1)]]

FMatAdd(A, B) == [r \in 1..Len(A) |-> [c \in 1..Len(A) |-> FAdd(A[r][c], B[r][c])]]

FMatDivInt(A, k) == [r \in 1..Len(A) |-> [c \in 1..Len(A) |-> FDivInt(A[r][c], k)]]

FMatScale(k, A) == [r \in 1..Len(A) |-> [c \in 1..Len(A) |-> FMulInt(k, A[r][c])]]

\* integer matrix as float matrix
ToF(A) == [r \in 1..Len(A) |-> [c \in 1..Len(A) |-> Frac(A[r][c], 1)]]

\* ------------------------------------------------------------ collaborators
\* The random source behind np.random.randn: a fixed stream per seed, read
\* at a position that advances by one per value drawn.  Values are -1, 0, 1.
Randn(seed, pos) == ((seed + pos + (pos \div 2) + (pos \div 4)) % 3) - 1

\* The forecast model, a callable (x0, ts) -> trajectory of shape
\* (ndim, len(ts)) whose first column is x0: drift m.g per unit of time.
CallModel(m, x0, ts) == [d \in 1..Len(x0) |-> [k \in 1..Len(ts) |-> x0[d] + m.g * ts[k]]]

\* -------------------------------------------------------------------- nmc
\* int(t1 / dt) for t1 >= 0, dt > 0
IntQuot(t1, dt) == t1 \div dt

\* np.arange(0, 2*t1_nstep*dt, dt)
Arange(t1_nstep, dt) == [k \in 1..(2 * t1_nstep) |-> (k - 1) * dt]

\* x0 of segment i: ref[:,idx] + np.random.randn(ndim) * scale
Perturbed(ref, idx, seed, pos) ==
    LET col   == Column(ref, idx)
        scale == Mean(col)
    IN  [d \in 1..Len(col) |-> col[d] + Randn(seed, pos + d - 1) * scale]

\* The forecast loop: segment i is the model run from the perturbed
\* reference column i * t1_nstep; each entry keeps the x0 it was started from.
Forecasts(model, ref, dt, t1_nstep, num, seed, pos) ==
    LET ndim == Len(ref)
    IN  [k \in 1..num |->
            LET i   == k - 1
                idx == i * t1_nstep
                x0  == Perturbed(ref, idx, seed, pos + i * ndim)
            IN  [seg |-> i, idx |-> idx, x0 |-> x0,
                 xfcst |-> CallModel(model, x0, Arange(t1_nstep, dt))]]

\* xfcst_short / xfcst_long: one extracted state per segment, in order
ShortStates(result, t1_nstep) ==
    [k \in 1..Len(result) |->
        [seg |-> result[k].seg, x |-> Column(result[k].xfcst, t1_nstep - 1)]]

LongStates(result, t1_nstep) ==
    [k \in 1..Len(result) |->
        [seg |-> result[k].seg, x |-> Column(result[k].xfcst, 2 * t1_nstep - 1)]]

\* s[1:] and s[:-1] of a python list
DropFirst(s) == IF s = <<>> THEN <<>> ELSE Tail(s)

DropLast(s) == IF s = <<>> THEN <<>> ELSE SubSeq(s, 1, Len(s) - 1)

Min(a, b) == IF a < b THEN a ELSE b

Zip(s, t) == [k \in 1..Min(Len(s), Len(t)) |-> <<s[k], t[k]>>]

LagPairsSelf(xfcst_short, xfcst_long) == Zip(xfcst_short, xfcst_long)

\* zip(xfcst_short[1:], xfcst_long[:-1])
LagPairs(xfcst_short, xfcst_long) == Zip(DropFirst(xfcst_short), DropLast(xfcst_long))

\* xlong - xshort of one pair
Diff(pair) == VecSub(pair[2].x, pair[1].x)

\* Pb = Pb + (xlong-xshort) @ (xlong-xshort).T over the pairs, from zeros
RECURSIVE SumOuter(_, _)
SumOuter(pairs, Pb) ==
    IF pairs = <<>> THEN Pb
    ELSE SumOuter(Tail(pairs), MatAdd(Pb, Outer(Diff(Head(pairs)))))

ScaledSquare(alpha, Pb, num) == FMatDivInt(FMatScale(alpha * alpha, ToF(Pb)), num - 1)

\* alpha * Pb / (num-1)
Scaled(alpha, Pb, num) == FMatDivInt(FMatScale(alpha, ToF(Pb)), num - 1)

\* A call that ends in an exception before the forecast loop.
Raised(exc, pos) ==
    [outcome |-> exc, Pb |-> <<>>, t1_nstep |-> -1, num |-> -1,
     segments |-> <<>>, pairs |-> <<>>, draws |-> 0, pos |-> pos]

\* nmc(model, ref, dt, t1, alpha) with the random source at position pos of
\* the stream of seed.  The record holds the outcome, the returned matrix and
\* what the call did: the model calls in order (segments), the pairs summed,
\* the number of random values drawn and the position the source is left at.
nmc(model, ref, dt, t1, alpha, seed, pos) ==
    LET ndim     == Shape(ref)[1]
        length   == Shape(ref)[2]
        t1_nstep == IntQuot(t1, dt)
    IN  IF t1_nstep = 0
        THEN Raised("ZeroDivisionError", pos)      \* length // t1_nstep
        ELSE
        LET num == (length \div t1_nstep) - 1
        IN  IF num < 0
            THEN Raised("ValueError", pos)         \* np.zeros((num, ...))
            ELSE
            LET result      == Forecasts(model, ref, dt, t1_nstep, num, seed, pos)
                xfcst_short == ShortStates(result, t1_nstep)
                xfcst_long  == LongStates(result, t1_nstep)
                pairs       == LagPairs(xfcst_short, xfcst_long)
                Pb          == SumOuter(pairs, Zeros(ndim))
            IN  [outcome |-> "returned", Pb |-> Scaled(alpha, Pb, num),
                 t1_nstep |-> t1_nstep, num |-> num,
                 segments |-> result, pairs |-> pairs,
                 draws |-> num * ndim, pos |-> pos + num * ndim]

\* ----------------------------------------------------------------- inputs
Models == {[g |-> 0], [g |-> 1]}

\* Reference trajectories of shape (ndim, nt): value b + a*j in column j,
\* shifted by ndim*(d-1) in row d (so that column means are integers).
RefOf(ndim, nt, a, b) ==
    [d \in 1..ndim |-> [k \in 1..nt |-> b + a * (k - 1) + ndim * (d - 1)]]

Refs == {RefOf(ndim, nt, a, b) : ndim \in 1..MaxDim, nt \in 1..MaxNt,
                                 a \in {0, 1}, b \in {0, 1}}

\* mean_ratio as a fraction <<p, q>>, q > 0
Ratios == {<<0, 1>>, <<1, 8>>, <<1, 3>>, <<1, 2>>, <<1, 1>>, <<3, 2>>}

\* lengths of the analysis trajectory the assimilation object produces
AnalysisLens == {5, 15, 25, 30, 40}

\* The assimilation collaborators.  "noop": cycle() leaves one fixed
\* analysis; "noop_seeded": the same, and cycle() re-seeds the random source
\* so that every nmc call sees the same draws; "feedback": the analysis
\* depends on the Pb last given to set_params.
Kinds == {"noop", "noop_seeded", "feedback"}

Identity(ndim, v) == [r \in 1..ndim |-> [c \in 1..ndim |-> IF r = c THEN Frac(v, 1) ELSE Frac(0, 1)]]

\* t1 = Window * dt in the call of nmc by iterative_nmc
Window == 10

\* ------------------------------------------------------------------ state
VARIABLES
    pc,         \* position of the running call
    args,       \* the arguments of the call
    seed,       \* seed of the random source
    rng,        \* position of the random source in its stream
    assim,      \* the assimilation object
    Pb,         \* iterative_nmc: local Pb, an object [id, val]
    Pb_result,  \* iterative_nmc: local Pb_result, an object [id, val]
    count,      \* iterative_nmc: local count
    i,          \* iterative_nmc: loop index
    ref,        \* iterative_nmc: local ref, [traj, by]: analysis and the cycle it came from
    frame,      \* iterative_nmc: locals model and dt
    ret,        \* how the call ended
    log,        \* history: the calls made on the collaborators, in order
    est,        \* history: the return value of nmc in each iteration
    added,      \* history: the iterations whose Pb was added to Pb_result, in order
    nextId      \* next fresh object identity

vars == <<pc, args, seed, rng, assim, Pb, Pb_result, count, i, ref, frame, ret, log, est, added, nextId>>

\* python's None as an object, a call that has not ended, no assimilation object
None == [id |-> 0, val |-> <<>>]

Pending == [outcome |-> "pending"]

NoAssim == [kind |-> "none"]

NoRef == [by |-> -1, traj |-> <<>>]

\* ------------------------------------------------------- direct nmc calls
InitNmc ==
    /\ pc = "start"
    /\ args \in [model : Models, ref : Refs, dt : 1..MaxDt, t1 : 0..MaxT1,
                 alpha : 1..MaxAlpha]
    /\ seed \in 0..MaxSeed
    /\ rng = 0
    /\ assim = NoAssim /\ Pb = None /\ Pb_result = None /\ count = 0 /\ i = 0
    /\ ref = NoRef /\ frame = NoAssim /\ ret = Pending /\ log = <<>> /\ est = <<>> /\ added = <<>>
    /\ nextId = 1

\* one call nmc(model, ref, dt, t1, alpha)
CallNmc ==
    /\ pc = "start"
    /\ assim.kind = "none"
    /\ LET r == nmc(args.model, args.ref, args.dt, args.t1, args.alpha, seed, rng)
       IN  /\ ret' = r
           /\ rng' = r.pos
    /\ pc' = "done"
    /\ UNCHANGED <<args, seed, assim, Pb, Pb_result, count, i, ref, frame, log, est, nextId, added>>

NextNmc == CallNmc

SpecNmc == InitNmc /\ [][NextNmc]_vars

\* ------------------------------------------------ the assimilation object
\* What cycle() leaves in assim.analysis.  The no-op collaborators keep the
\* analysis they were built with; the feedback collaborator's analysis
\* depends on the Pb it was configured with.
PbKey(P) ==
    IF P = <<>> THEN 0
    ELSE LET x == P[1][1]
         IN  IF x.d = 0 THEN 0 ELSE (x.n + x.d) % 2

AnalysisAfterCycle(a) ==
    IF a.kind = "feedback"
    THEN RefOf(a.ndim, a.nt, 1, 1 + PbKey(a.Pb.val))
    ELSE a.analysis

Assims ==
    {[kind |-> k, model |-> m, dt |-> dt, ndim |-> ndim, nt |-> nt,
      Pb |-> None, cycles |-> 0, produced |-> 0,
      analysis |-> IF k = "feedback" THEN <<>> ELSE RefOf(ndim, nt, 1, 1)] :
        k \in Kinds, m \in Models, dt \in {1, MaxDt}, ndim \in {1, MaxDim},
        nt \in AnalysisLens}

\* ---------------------------------------------------------- iterative_nmc
InitIter ==
    /\ pc = "start"
    /\ assim \in Assims
    /\ \E given \in {<<1, 0>>, <<2, 0>>, <<1, 3>>}, niter \in 1..MaxIter, mean_ratio \in Ratios :
          args = [R |-> [id |-> 1, val |-> Identity(assim.ndim, given[1])],
                  Pb_ini |-> IF given[2] = 0 THEN None
                             ELSE [id |-> 2, val |-> Identity(assim.ndim, given[2])],
                  niter |-> niter,
                  mean_ratio |-> mean_ratio]
    /\ seed = 0
    /\ rng = 0
    /\ Pb = None /\ Pb_result = None /\ count = 0 /\ i = 0
    /\ ref = NoRef /\ frame = NoAssim /\ ret = Pending /\ log = <<>> /\ est = <<>>
    /\ added = <<>>
    /\ nextId = 3

Alias(obj, id) == obj

\* obj.copy(): a new object with the same value
Copy(obj, id) == [id |-> id, val |-> obj.val]

\* np.zeros_like(obj)
ZerosLike(obj, id) == [id |-> id, val |-> FZeros(Len(obj.val))]

QualifiesGe(k, niter, mean_ratio) == k * mean_ratio[2] >= mean_ratio[1] * niter

\* i/niter > mean_ratio, for niter > 0 and mean_ratio = p/q with q > 0
Qualifies(k, niter, mean_ratio) == k * mean_ratio[2] > mean_ratio[1] * niter

DividedOffByOne(acc, n) == FMatDivInt(acc, n + 1)

\* Pb_result /= count
Divided(acc, n) == FMatDivInt(acc, n)

\* lines 115-123: defaults, locals, Pb = Pb_ini.copy(), Pb_result, count
Begin ==
    /\ pc = "start"
    /\ assim.kind # "none"
    /\ LET Pb_ini == IF args.Pb_ini.id = 0 THEN args.R ELSE args.Pb_ini
       IN  /\ Pb' = Copy(Pb_ini, nextId)
           /\ Pb_result' = ZerosLike(Copy(Pb_ini, nextId), nextId + 1)
    /\ frame' = [kind |-> "frame", model |-> assim.model, dt |-> assim.dt]
    /\ count' = 0
    /\ i' = 0
    /\ nextId' = nextId + 2
    /\ pc' = "loop"
    /\ UNCHANGED <<args, seed, rng, assim, ref, ret, log, est, added>>

\* line 125: assim.set_params(Pb=Pb)
SetParams ==
    /\ pc = "loop"
    /\ i < args.niter
    /\ assim' = [assim EXCEPT !.Pb = Pb]
    /\ log' = Append(log, [op |-> "set_params", arg |-> Pb, draws |-> 0, calls |-> 0])
    /\ pc' = "cycle"
    /\ UNCHANGED <<args, seed, rng, Pb, Pb_result, count, i, ref, frame, ret, est, nextId, added>>

\* line 126: assim.cycle()
Cycle ==
    /\ pc = "cycle"
    /\ assim' = [assim EXCEPT !.cycles = @ + 1, !.produced = assim.cycles + 1,
                              !.analysis = AnalysisAfterCycle(assim)]
    /\ rng' = IF assim.kind = "noop_seeded" THEN 0 ELSE rng
    /\ log' = Append(log, [op |-> "cycle", arg |-> [id |-> assim.cycles + 1, val |-> <<>>],
                           draws |-> 0, calls |-> 0])
    /\ pc' = "read"
    /\ UNCHANGED <<args, seed, Pb, Pb_result, count, i, ref, frame, ret, est, nextId, added>>

\* line 127: ref = assim.analysis
ReadAnalysis ==
    /\ pc = "read"
    /\ ref' = [by |-> assim.produced, traj |-> assim.analysis]
    /\ log' = Append(log, [op |-> "analysis", arg |-> [id |-> assim.produced, val |-> <<>>],
                           draws |-> 0, calls |-> 0])
    /\ pc' = "nmc"
    /\ UNCHANGED <<args, seed, rng, assim, Pb, Pb_result, count, i, frame, ret, est, nextId, added>>

\* the call of line 128
Estimator == nmc(frame.model, ref.traj, frame.dt, Window * frame.dt, 1, seed, rng)

\* line 128: Pb = nmc(model, ref, dt, 10*dt), the call returns
Estimate ==
    /\ pc = "nmc"
    /\ LET r == Estimator
       IN  /\ r.outcome = "returned"
           /\ Pb' = [id |-> nextId, val |-> r.Pb]
           /\ est' = Append(est, [id |-> nextId, val |-> r.Pb])
           /\ rng' = r.pos
           /\ log' = Append(log, [op |-> "nmc", arg |-> [id |-> ref.by, val |-> <<>>],
                                  draws |-> r.draws, calls |-> Len(r.segments)])
    /\ nextId' = nextId + 1
    /\ pc' = "test"
    /\ UNCHANGED <<args, seed, assim, Pb_result, count, i, ref, frame, ret, added>>

\* line 128: the call raises, and the exception leaves iterative_nmc
EstimateRaises ==
    /\ pc = "nmc"
    /\ LET r == Estimator
       IN  /\ r.outcome # "returned"
           /\ ret' = [outcome |-> r.outcome]
           /\ log' = Append(log, [op |-> "nmc", arg |-> [id |-> ref.by, val |-> <<>>],
                                  draws |-> r.draws, calls |-> Len(r.segments)])
    /\ pc' = "done"
    /\ UNCHANGED <<args, seed, rng, assim, Pb, Pb_result, count, i, ref, frame, est, nextId, added>>

\* lines 130-132, condition true: Pb_result += Pb; count += 1
Accumulate ==
    /\ pc = "test"
    /\ Qualifies(i, args.niter, args.mean_ratio)
    /\ Pb_result' = [Pb_result EXCEPT !.val = FMatAdd(@, Pb.val)]
    /\ count' = count + 1
    /\ added' = Append(added, i)
    /\ i' = i + 1
    /\ pc' = "loop"
    /\ UNCHANGED <<args, seed, rng, assim, Pb, ref, frame, ret, log, est, nextId>>

\* line 130, condition false
Skip ==
    /\ pc = "test"
    /\ ~Qualifies(i, args.niter, args.mean_ratio)
    /\ i' = i + 1
    /\ pc' = "loop"
    /\ UNCHANGED <<args, seed, rng, assim, Pb, Pb_result, count, ref, frame, ret, log, est, nextId, added>>

\* lines 134-135: Pb_result /= count; return Pb_result
Finish ==
    /\ pc = "loop"
    /\ i >= args.niter
    /\ Pb_result' = [Pb_result EXCEPT !.val = Divided(@, count)]
    /\ ret' = [outcome |-> "returned", Pb |-> Pb_result']
    /\ pc' = "done"
    /\ UNCHANGED <<args, seed, rng, assim, Pb, count, i, ref, frame, log, est, nextId, added>>

NextIter ==
    \/ Begin
    \/ SetParams
    \/ Cycle
    \/ ReadAnalysis
    \/ Estimate
    \/ EstimateRaises
    \/ Accumulate
    \/ Skip
    \/ Finish

SpecIter == InitIter /\ [][NextIter]_vars

\* =========================================================== claims on nmc
\* (checked under SpecNmc)

\* the call of nmc has ended
NmcDone == pc = "done"

\* floor(t1/dt) and floor(nt/t1_nstep) - 1 of the call's arguments
ArgT1Nstep == args.t1 \div args.dt

ArgNum == IF ArgT1Nstep = 0 THEN -1 ELSE (Len(args.ref[1]) \div ArgT1Nstep) - 1

ArgNdim == Len(args.ref)

\* some entry of a float matrix is finite and not zero
SomeNonZero(M) == \E r \in 1..Len(M) : \E c \in 1..Len(M) : M[r][c].d # 0 /\ M[r][c].n # 0

\* C1: a call with floor(t1/dt) = 0 ends in InvalidParameter (not in a
\* division by zero, not in a matrix), and the model is not called.
C1_DegenerateWindowInvalidParameter ==
    (NmcDone /\ ArgT1Nstep = 0)
        => (ret.outcome = "InvalidParameter" /\ Len(ret.segments) = 0)

\* C2: a call with t1_nstep >= 1 and num < 2 ends in InsufficientData,
\* with no random value drawn and no model call.
C2_ShortReferenceInsufficientData ==
    (NmcDone /\ ArgT1Nstep >= 1 /\ ArgNum < 2)
        => (ret.outcome = "InsufficientData" /\ ret.draws = 0 /\ Len(ret.segments) = 0)

SegState(k, j) == Column(ret.segments[k].xfcst, j)

\* entry (r, c) of the sum over i in 0..num-2 of d_i d_i^T, where d_i is
\* segment i at index 2*t1_nstep-1 minus segment i+1 at index t1_nstep-1
LagSum(r, c) ==
    SumSeq([k \in 1..(ArgNum - 1) |->
              (SegState(k, 2 * ArgT1Nstep - 1)[r] - SegState(k + 1, ArgT1Nstep - 1)[r])
            * (SegState(k, 2 * ArgT1Nstep - 1)[c] - SegState(k + 1, ArgT1Nstep - 1)[c])])

IterDone == pc = "done"

Returned == pc = "done" /\ ret.outcome = "returned"

\* mean_ratio = RatioP / RatioQ
RatioP == args.mean_ratio[1]

RatioQ == args.mean_ratio[2]

\* the iterations j of 0..k-1 with j / niter > mean_ratio
Late(k) == {j \in 0..(k - 1) : j * RatioQ > RatioP * args.niter}

\* the number of entries of the log with the given op
CallsOf(op) == Cardinality({k \in 1..Len(log) : log[k].op = op})

\* the number of model calls made by the nmc calls of the log
ModelCalls == SumSeq([k \in 1..Len(log) |-> log[k].calls])

\* C3: a call (here with mean_ratio in (0, 1]) whose loop completes with no
\* iteration i such that i/niter > mean_ratio ends in InsufficientIterations.
C3_NoLateIterationInsufficientIterations ==
    (IterDone /\ i = args.niter /\ Late(args.niter) = {}
              /\ RatioP > 0 /\ RatioP <= RatioQ)
        => ret.outcome = "InsufficientIterations"

\* C4: with mean_ratio <= 0 or mean_ratio > 1 the call makes no call of
\* set_params, cycle or the model, and ends in InvalidParameter.
C4_MeanRatioOutsideRangeInvalidParameter ==
    (RatioP <= 0 \/ RatioP > RatioQ) =>
        /\ CallsOf("set_params") = 0 /\ CallsOf("cycle") = 0 /\ ModelCalls = 0
        /\ IterDone => ret.outcome = "InvalidParameter"

\* C5: for mean_ratio = r in (0, 1], a call that returns the average of at
\* least one estimate has averaged count iterations with |count - r*niter|
\* at most 1, and they are the last count iterations.
C5_MeanRatioIsFractionAveraged ==
    (Returned /\ RatioP > 0 /\ RatioP <= RatioQ /\ count >= 1) =>
        /\ count * RatioQ - RatioP * args.niter <= RatioQ
        /\ RatioP * args.niter - count * RatioQ <= RatioQ
        /\ added = [k \in 1..count |-> args.niter - count + k - 1]

RECURSIVE FSumMats(_, _)
FSumMats(ms, acc) == IF ms = <<>> THEN acc ELSE FSumMats(Tail(ms), FMatAdd(acc, Head(ms)))

\* the estimates, in order, of the iterations j < k with j / niter > mean_ratio
LateEstimates(k) ==
    SelectSeq([j \in 1..Min(k, Len(est)) |-> [it |-> j - 1, val |-> est[j].val]],
              LAMBDA e : e.it * RatioQ > RatioP * args.niter)

LateSum(k, n) == FSumMats([j \in 1..Len(LateEstimates(k)) |-> LateEstimates(k)[j].val], FZeros(n))

Round == <<"set_params", "cycle", "analysis", "nmc">>

\* the log is a prefix of niter repetitions of Round
InOrder ==
    /\ Len(log) <= 4 * args.niter
    /\ \A k \in 1..Len(log) : log[k].op = Round[((k - 1) % 4) + 1]

\* the initial guess: Pb_ini, or R when Pb_ini is None
Guess == IF args.Pb_ini.id = 0 THEN args.R ELSE args.Pb_ini

\* the Pb given to set_params: a copy of the guess in iteration 0, then the
\* very matrix nmc returned in the iteration before
PbChain ==
    \A k \in 1..Len(log) :
        log[k].op = "set_params" =>
            IF k = 1
            THEN /\ log[k].arg.val = Guess.val
                 /\ log[k].arg.id \notin {args.R.id, args.Pb_ini.id}
            ELSE /\ log[k].arg = est[(k - 1) \div 4]
                 /\ log[k].arg.id \notin {args.R.id, args.Pb_ini.id, log[1].arg.id}
                 /\ log[k].arg.id # Pb_result.id

\* analysis is read from, and nmc is given, what the cycle() of the same
\* iteration produced
SameIterationAnalysis ==
    \A k \in 1..Len(log) :
        /\ log[k].op = "cycle" => log[k].arg.id = ((k - 1) \div 4) + 1
        /\ log[k].op \in {"analysis", "nmc"} => log[k].arg.id = ((k - 1) \div 4) + 1

\* C10 as stated: every run makes exactly niter rounds set_params, cycle,
\* analysis, nmc, with the Pb chain and the analysis of the same iteration.
C10_ProtocolInEveryRun ==
    /\ InOrder /\ PbChain /\ SameIterationAnalysis
    /\ IterDone => Len(log) = 4 * args.niter

\* C10, amended: the order, the Pb chain and the analysis rule hold in every
\* run; a run that returns has made exactly niter rounds; a run that nmc ends
\* with an exception stops at that call of nmc.
C10_Protocol ==
    /\ InOrder /\ PbChain /\ SameIterationAnalysis
    /\ Returned => Len(log) = 4 * args.niter
    /\ (IterDone /\ ~Returned) =>
          /\ Len(log) % 4 = 0 /\ Len(log) >= 4
          /\ Len(est) = (Len(log) \div 4) - 1

\* a run of three or more iterations with the feedback collaborator and a
\* given Pb_ini has returned
C10_Witness ==
    /\ Returned /\ args.niter >= 3
    /\ RatioP > 0 /\ RatioP <= RatioQ
    /\ assim.kind = "feedback" /\ args.Pb_ini.id # 0
    /\ Len(log) = 4 * args.niter
    /\ est[1].val # est[2].val

====
